---- MODULE Spec2Model ----
(***************************************************************************)
(* ParseOracle.py: organize_scryfall_data reads an array of card records   *)
(* and writes each record to <root>/<color>/<super-type>/<sub-type>/       *)
(* <name>.json.  Strings are sequences of one-character strings, so that   *)
(* substring tests, split, replace, re.sub and os.path.join are computed   *)
(* character by character as the Python code computes them.                *)
(***************************************************************************)
EXTENDS Integers, Sequences, FiniteSets, TLC

VARIABLES
    input_exists,       \* os.path.exists(input_file)
    input_doc,          \* the array of records the input file holds
    cards,              \* the list json.load returned
    pc,                 \* position of the call in organize_scryfall_data
    i,                  \* 1-based index of the record the for loop is at
    run,                \* 1 in the first call, 2 in the call repeated after it
    color_folder, super_type_folder, sub_type_folder, target_dir, file_path,
    dirs,               \* the directories that exist on disk
    fs,                 \* the files on disk: path -> text
    stdout,             \* what print has written
    tree_after_first    \* the output tree the first call left behind

vars == <<input_exists, input_doc, cards, pc, i, run,
          color_folder, super_type_folder, sub_type_folder,
          target_dir, file_path,
          dirs, fs, stdout, tree_after_first>>

locals == <<color_folder, super_type_folder, sub_type_folder, target_dir, file_path>>

(***************************************************************************)
(* Bounds of the model.                                                    *)
(***************************************************************************)
MaxCards == 2
MaxColors == 2
MaxFaces == 2
MaxFaceColors == 1
MaxWords == 2
MaxParts == 3

(***************************************************************************)
(* String literals of the program.                                         *)
(***************************************************************************)
\* the em-dash character U+2014, written as its code point
EmDash == "u2014"

Separator == <<" ", EmDash, " ">>

Colorless == <<"C","o","l","o","r","l","e","s","s">>

Normal == <<"N","o","r","m","a","l">>

No_Subtype == <<"N","o","_","S","u","b","t","y","p","e">>

Unknown_Card == <<"U","n","k","n","o","w","n","_","C","a","r","d">>

DotJson == <<".","j","s","o","n">>

super_type_list ==
    << <<"B","a","s","i","c">>,
       <<"L","e","g","e","n","d","a","r","y">>,
       <<"S","n","o","w">>,
       <<"W","o","r","l","d">>,
       <<"O","n","g","o","i","n","g">>,
       <<"E","l","i","t","e">> >>

IllegalChars == {"\\", "/", "*", "?", ":", "\"", "<", ">", "|"}

output_root == <<"o","u","t">>

(***************************************************************************)
(* Python string and list primitives.                                      *)
(***************************************************************************)
\* Code points of the colour letters: sorted() orders str by code point.
Ord(c) ==
    CASE c = "B" -> 66
      [] c = "G" -> 71
      [] c = "R" -> 82
      [] c = "U" -> 85
      [] c = "W" -> 87

\* s in t  (substring test)
Contains(t, s) ==
    \E k \in 0..(Len(t) - Len(s)) : SubSeq(t, k + 1, k + Len(s)) = s

\* "".join(parts)
RECURSIVE Concat(_)
Concat(parts) ==
    IF parts = <<>> THEN <<>> ELSE Head(parts) \o Concat(Tail(parts))

\* glue.join(parts)
RECURSIVE JoinWith(_, _)
JoinWith(glue, parts) ==
    IF parts = <<>> THEN <<>>
    ELSE IF Len(parts) = 1 THEN Head(parts)
    ELSE Head(parts) \o glue \o JoinWith(glue, Tail(parts))

\* s.replace(" ", "_")
ReplaceSpaces(s) == [k \in 1..Len(s) |-> IF s[k] = " " THEN "_" ELSE s[k]]

\* s.split(sep): non-overlapping occurrences, scanned left to right
RECURSIVE Split(_, _)
Split(s, sep) ==
    LET hits == {k \in 1..(Len(s) - Len(sep) + 1) : SubSeq(s, k, k + Len(sep) - 1) = sep}
    IN  IF hits = {} THEN <<s>>
        ELSE LET k == CHOOSE h \in hits : \A g \in hits : h <= g
             IN  <<SubSeq(s, 1, k - 1)>> \o Split(SubSeq(s, k + Len(sep), Len(s)), sep)

\* sorted(xs) for a list of colour letters (stable insertion into a sorted list)
RECURSIVE Insert(_, _)
Insert(x, sorted) ==
    IF sorted = <<>> THEN <<x>>
    ELSE IF Ord(x) < Ord(Head(sorted)) THEN <<x>> \o sorted
    ELSE <<Head(sorted)>> \o Insert(x, Tail(sorted))

\* mutant of Sorted: the list is joined as given
Unsorted(xs) == xs

RECURSIVE Sorted(_)
Sorted(xs) ==
    IF xs = <<>> THEN <<>> ELSE Insert(xs[Len(xs)], Sorted(SubSeq(xs, 1, Len(xs) - 1)))

\* dict.get(key, default)
Get(d, key, default) == IF key \in DOMAIN d THEN d[key] ELSE default

\* os.path.join(a, b) of posixpath
PathJoin2(a, b) ==
    IF b # <<>> /\ b[1] = "/" THEN b
    ELSE IF a = <<>> \/ a[Len(a)] = "/" THEN a \o b
    ELSE a \o <<"/">> \o b

RECURSIVE PathJoin(_)
PathJoin(segs) ==
    IF Len(segs) = 1 THEN segs[1]
    ELSE PathJoin2(PathJoin(SubSeq(segs, 1, Len(segs) - 1)), segs[Len(segs)])

(***************************************************************************)
(* sanitize_name and the classification of one card (lines 5-7, 19-57).    *)
(***************************************************************************)
\* mutant of sanitize_name: spaces are turned into underscores as well
sanitize_name_underscores(name) ==
    LET kept == SelectSeq(name, LAMBDA c : c \notin IllegalChars)
    IN  [k \in 1..Len(kept) |-> IF kept[k] = " " THEN "_" ELSE kept[k]]

RECURSIVE sanitize_name(_)
sanitize_name(name) ==
    IF name = <<>> THEN <<>>
    ELSE IF Head(name) \in IllegalChars THEN sanitize_name(Tail(name))
    ELSE <<Head(name)>> \o sanitize_name(Tail(name))

\* the letters of every face's colors, face by face (the generator of line 23)
RECURSIVE FaceLetters(_)
FaceLetters(faces) ==
    IF faces = <<>> THEN <<>>
    ELSE Get(Head(faces), "colors", <<>>) \o FaceLetters(Tail(faces))

Range(s) == {s[k] : k \in 1..Len(s)}

\* list(set(...)): the distinct letters in an order the runtime picks
Orderings(S) ==
    {s \in [1..Cardinality(S) -> S] : Range(s) = S}

\* mutant of ColorsLists: the face letters are collected without set()
ColorsListsNoSet(card) ==
    LET top == Get(card, "colors", <<>>)
    IN  IF top = <<>> /\ "card_faces" \in DOMAIN card
        THEN {FaceLetters(card["card_faces"])}
        ELSE {top}

\* the values colors_list can hold after lines 21-23
ColorsLists(card) ==
    LET top == Get(card, "colors", <<>>)
    IN  IF top = <<>> /\ "card_faces" \in DOMAIN card
        THEN Orderings(Range(FaceLetters(card["card_faces"])))
        ELSE {top}

ColorFolder(colors_list) ==
    IF colors_list # <<>> THEN Concat([k \in 1..Len(colors_list) |-> <<Sorted(colors_list)[k]>>])
    ELSE Colorless

RECURSIVE FilterSupers(_, _)
FilterSupers(list, type_line) ==
    IF list = <<>> THEN <<>>
    ELSE IF Contains(type_line, Head(list))
         THEN <<Head(list)>> \o FilterSupers(Tail(list), type_line)
         ELSE FilterSupers(Tail(list), type_line)

\* mutant of found_supers: the scan stops at the first name found
found_supers_first(type_line) ==
    IF FilterSupers(super_type_list, type_line) = <<>> THEN <<>>
    ELSE <<Head(FilterSupers(super_type_list, type_line))>>

found_supers(type_line) == FilterSupers(super_type_list, type_line)

SuperTypeFolder(type_line) ==
    IF found_supers(type_line) # <<>> THEN JoinWith(<<" ">>, found_supers(type_line))
    ELSE Normal

\* mutant of sub_type_part: index -1 instead of 1
sub_type_part_last(type_line) ==
    Split(type_line, Separator)[Len(Split(type_line, Separator))]

sub_type_part(type_line) == Split(type_line, Separator)[2]

SubTypeFolder(type_line) ==
    IF Contains(type_line, Separator)
    THEN sanitize_name(ReplaceSpaces(sub_type_part(type_line)))
    ELSE No_Subtype

TargetDir(color, super, sub) == PathJoin(<<output_root, color, super, sub>>)

card_name(card) == sanitize_name(Get(card, "name", Unknown_Card))

FilePath(dir, card) == PathJoin(<<dir, card_name(card) \o DotJson>>)

(***************************************************************************)
(* json.dump(card, out_f, indent=4) and json.load.  A text is a sequence   *)
(* of tokens; a token is a sequence of characters: a punctuation mark, a   *)
(* string literal with its quotes and escapes, or a newline followed by    *)
(* the indentation.  ensure_ascii is on: the em-dash is written \u2014.  *)
(***************************************************************************)
EscapeChar(c) ==
    IF c = EmDash THEN <<"\\", "u", "2", "0", "1", "4">>
    ELSE IF c = "\"" THEN <<"\\", "\"">>
    ELSE IF c = "\\" THEN <<"\\", "\\">>
    ELSE <<c>>

Escape(s) == Concat([k \in 1..Len(s) |-> EscapeChar(s[k])])

RECURSIVE Unescape(_)
Unescape(s) ==
    IF s = <<>> THEN <<>>
    ELSE IF Head(s) # "\\" THEN <<Head(s)>> \o Unescape(Tail(s))
    ELSE IF s[2] = "u" THEN <<EmDash>> \o Unescape(SubSeq(s, 7, Len(s)))
    ELSE <<s[2]>> \o Unescape(SubSeq(s, 3, Len(s)))

Quote(s) == <<"\"">> \o Escape(s) \o <<"\"">>

RECURSIVE Spaces(_)
Spaces(n) == IF n = 0 THEN <<>> ELSE <<" ">> \o Spaces(n - 1)

\* the line break and indentation json writes at nesting depth d
Indent(d) == <<"\n">> \o Spaces(4 * d)

\* items: a sequence of token sequences, one per element or member
RECURSIVE Separated(_, _)
Separated(items, d) ==
    IF items = <<>> THEN <<>>
    ELSE <<Indent(d)>> \o Head(items)
         \o (IF Len(items) > 1 THEN << <<",">> >> ELSE <<>>)
         \o Separated(Tail(items), d)

Bracketed(open, close, items, d) ==
    IF items = <<>> THEN <<open, close>>
    ELSE <<open>> \o Separated(items, d + 1) \o <<Indent(d), close>>

DumpString(s) == <<Quote(s)>>

DumpLetters(list, d) ==
    Bracketed(<<"[">>, <<"]">>, [k \in 1..Len(list) |-> DumpString(<<list[k]>>)], d)

FieldNames == <<"name", "colors", "card_faces", "type_line">>

KeyChars(k) ==
    CASE k = "name" -> <<"n","a","m","e">>
      [] k = "colors" -> <<"c","o","l","o","r","s">>
      [] k = "card_faces" -> <<"c","a","r","d","_","f","a","c","e","s">>
      [] k = "type_line" -> <<"t","y","p","e","_","l","i","n","e">>

KeyOf(chars) == CHOOSE k \in Range(FieldNames) : KeyChars(k) = chars

RECURSIVE Keys(_, _)
Keys(names, obj) ==
    IF names = <<>> THEN <<>>
    ELSE (IF Head(names) \in DOMAIN obj THEN <<Head(names)>> ELSE <<>>)
         \o Keys(Tail(names), obj)

Member(k, value) == <<Quote(KeyChars(k)), <<":">> >> \o value

DumpFace(face, d) ==
    LET ks == Keys(FieldNames, face)
    IN  Bracketed(<<"{">>, <<"}">>,
            [n \in 1..Len(ks) |->
                Member(ks[n], IF ks[n] = "colors" THEN DumpLetters(face[ks[n]], d + 1)
                              ELSE DumpString(face[ks[n]]))], d)

DumpFaces(faces, d) ==
    Bracketed(<<"[">>, <<"]">>, [n \in 1..Len(faces) |-> DumpFace(faces[n], d + 1)], d)

Dump(card) ==
    LET ks == Keys(FieldNames, card)
    IN  Bracketed(<<"{">>, <<"}">>,
            [n \in 1..Len(ks) |->
                Member(ks[n], CASE ks[n] = "colors" -> DumpLetters(card[ks[n]], 1)
                                [] ks[n] = "card_faces" -> DumpFaces(card[ks[n]], 1)
                                [] OTHER -> DumpString(card[ks[n]]))], 0)

IsSpace(tok) == tok[1] = "\n"

RECURSIVE Skip(_, _)
Skip(toks, p) == IF p <= Len(toks) /\ IsSpace(toks[p]) THEN Skip(toks, p + 1) ELSE p

\* a colors array holds one-letter strings; the model keeps a letter as a character
AsElement(key, v) == IF key = "colors" THEN v[1] ELSE v

RECURSIVE ParseValue(_, _, _), ParseMembers(_, _, _), ParseElements(_, _, _, _)
ParseValue(toks, p, key) ==
    LET q == Skip(toks, p)
    IN  IF toks[q] = <<"{">> THEN ParseMembers(toks, q + 1, {})
        ELSE IF toks[q] = <<"[">> THEN ParseElements(toks, q + 1, <<>>, key)
        ELSE [val |-> Unescape(SubSeq(toks[q], 2, Len(toks[q]) - 1)), next |-> q + 1]

\* acc: the set of <<key, value>> pairs read so far
ParseMembers(toks, p, acc) ==
    LET q == Skip(toks, p)
    IN  IF toks[q] = <<"}">>
        THEN [val |-> [k \in {m[1] : m \in acc} |-> (CHOOSE m \in acc : m[1] = k)[2]],
              next |-> q + 1]
        ELSE IF toks[q] = <<",">> THEN ParseMembers(toks, q + 1, acc)
        ELSE LET k == KeyOf(Unescape(SubSeq(toks[q], 2, Len(toks[q]) - 1)))
                 v == ParseValue(toks, Skip(toks, q + 1) + 1, k)
             IN  ParseMembers(toks, v.next, acc \cup {<<k, v.val>>})

ParseElements(toks, p, acc, key) ==
    LET q == Skip(toks, p)
    IN  IF toks[q] = <<"]">> THEN [val |-> acc, next |-> q + 1]
        ELSE IF toks[q] = <<",">> THEN ParseElements(toks, q + 1, acc, key)
        ELSE LET v == ParseValue(toks, q, key)
             IN  ParseElements(toks, v.next, Append(acc, AsElement(key, v.val)), key)

Parse(text) == ParseValue(text, 1, "card").val

(***************************************************************************)
(* The file system: os.makedirs(target_dir, exist_ok=True) and open(..,'w')*)
(***************************************************************************)
\* the directories makedirs creates for path p, outermost first
DirChain(p) ==
    LET ends == {k \in 1..Len(p) : p[k] # "/" /\ (k = Len(p) \/ p[k + 1] = "/")}
        nth(n) == CHOOSE k \in ends : Cardinality({e \in ends : e < k}) = n - 1
    IN  [n \in 1..Cardinality(ends) |-> SubSeq(p, 1, nth(n))]

NoFiles == [p \in {} |-> <<>>]

\* mutant of WriteText: a file that holds text is not written again
WriteTextKeepExisting(files, path, text) ==
    [p \in DOMAIN files \cup {path} |->
        IF p = path /\ (p \notin DOMAIN files \/ files[p] = <<>>) THEN text ELSE files[p]]

\* mutant of WriteText: mode 'a', the text is appended to what the file holds
WriteTextAppend(files, path, text) ==
    [p \in DOMAIN files \cup {path} |->
        IF p # path THEN files[p]
        ELSE IF p \in DOMAIN files THEN files[p] \o text ELSE text]

WriteText(files, path, text) ==
    [p \in DOMAIN files \cup {path} |-> IF p = path THEN text ELSE files[p]]

(***************************************************************************)
(* The input documents the model runs on.                                  *)
(***************************************************************************)
SeqsUpTo(S, n) == UNION {[1..k -> S] : k \in 0..n}

\* a field is given as {} (absent from the record) or {value}
MkCard(n, c, f, t) ==
    LET o == [name |-> n, colors |-> c, card_faces |-> f, type_line |-> t]
    IN  [k \in {x \in DOMAIN o : o[x] # {}} |-> CHOOSE v \in o[k] : TRUE]

Letters == {"B", "R", "U"}

LettersOfFaces == {"R", "U"}

Creature == <<"C","r","e","a","t","u","r","e">>

Dragon == <<"D","r","a","g","o","n">>

Land == <<"L","a","n","d">>

ShivanDragon == <<"S","h","i","v","a","n"," ","D","r","a","g","o","n">>

Plains == <<"P","l","a","i","n","s">>

CreatureDragon == Creature \o Separator \o Dragon

ColorsOpts == {{}} \cup {{c} : c \in SeqsUpTo(Letters, MaxColors)}

Faces ==
    {[name |-> <<"F">>]}
        \cup {[colors |-> c] : c \in SeqsUpTo(LettersOfFaces, MaxFaceColors)}

FacesOpts == {{}} \cup {{f} : f \in SeqsUpTo(Faces, MaxFaces)}

Words == Range(super_type_list) \cup {Land}

Heads == {JoinWith(<<" ">>, w) : w \in SeqsUpTo(Words, MaxWords)}

Parts == {Separator, <<" ">>, <<EmDash>>, <<"D">>, <<"/">>}

Tails == {Concat(t) : t \in SeqsUpTo(Parts, MaxParts)}

TypeLines ==
    {h \o t : h \in Heads, t \in {<<>>, Separator \o Dragon}}
        \cup {h \o t : h \in {<<>>, Creature, <<"S","n","o","w">>}, t \in Tails}

Names ==
    {ShivanDragon, Plains, <<>>, <<"K","i","x"," ","<","T","e","s","t",">">>,
     <<"F","i","r","e"," ","/","/"," ","I","c","e">>, <<"a","\"","\\","b">>}

ScenarioA == MkCard({ShivanDragon}, {<<"R">>}, {}, {CreatureDragon})

ScenarioB ==
    MkCard({Plains}, {<<>>}, {},
           {<<"B","a","s","i","c"," ","L","a","n","d">> \o Separator \o Plains})

ScenarioC ==
    MkCard({<<"F","i","r","e"," ","/","/"," ","I","c","e">>}, {<<>>},
           {<<[colors |-> <<"R">>], [colors |-> <<"U">>]>>},
           {<<"I","n","s","t","a","n","t"," ","/","/"," ","I","n","s","t","a","n","t">>})

\* a second record that names the same file as ScenarioA
ShivanReprint == MkCard({ShivanDragon}, {}, {<<[colors |-> <<"R">>]>>}, {CreatureDragon})

\* a type line that ends with the separator
NoSubtypeText == MkCard({Dragon}, {<<"R">>}, {}, {Creature \o Separator})

\* a double-faced type line: the separator occurs twice
TwoFaced ==
    MkCard({Dragon}, {<<"U">>}, {},
           {Creature \o Separator \o <<"D">> \o Separator \o <<"D">>})

\* records that differ in one field at a time, processed alone
SingleCards ==
    {MkCard({Dragon}, c, f, {CreatureDragon}) :
        c \in ColorsOpts, f \in {{}, {<<>>}, {<<[colors |-> <<"U">>]>>}}}
    \cup {MkCard({Dragon}, c, f, {CreatureDragon}) :
        c \in {{}, {<<>>}}, f \in FacesOpts}
    \cup {MkCard({Dragon}, {<<"R">>}, {}, t) : t \in {{}} \cup {{x} : x \in TypeLines}}
    \cup {MkCard(n, {<<"R">>}, {}, {CreatureDragon}) : n \in {{}} \cup {{x} : x \in Names}}
    \cup {ScenarioA, ScenarioB, ScenarioC}

\* records processed in sequence: some share a destination, some do not
SequenceCards == {ScenarioA, ShivanReprint, ScenarioB, NoSubtypeText, TwoFaced}

\* an output tree left by an earlier use of the same root
StaleText == << <<"{">>, <<"}">> >>

StaleFile == output_root \o <<"/","R","/">> \o Normal \o <<"/">> \o Dragon
                \o <<"/">> \o ShivanDragon \o DotJson

Trees ==
    {[dirs |-> {}, fs |-> NoFiles],
     [dirs |-> Range(DirChain(output_root \o <<"/","R","/">> \o Normal \o <<"/">> \o Dragon)),
      fs |-> WriteText(NoFiles, StaleFile, StaleText)]}

(***************************************************************************)
(* organize_scryfall_data as a state machine.                              *)
(***************************************************************************)
Init ==
    /\ input_exists \in BOOLEAN
    /\ \/ /\ ~input_exists
          /\ input_doc = <<>>
          /\ \E t \in Trees : dirs = t.dirs /\ fs = t.fs
       \/ /\ input_exists
          /\ \/ /\ input_doc \in SeqsUpTo(SequenceCards, MaxCards)
                /\ \E t \in Trees : dirs = t.dirs /\ fs = t.fs
             \/ /\ input_doc \in {<<c>> : c \in SingleCards}
                /\ dirs = {} /\ fs = NoFiles
    /\ cards = <<>>
    /\ pc = "start"
    /\ i = 0
    /\ run = 1
    /\ color_folder = <<>>
    /\ super_type_folder = <<>>
    /\ sub_type_folder = <<>>
    /\ target_dir = <<>>
    /\ file_path = <<>>
    /\ stdout = <<>>
    /\ tree_after_first = [dirs |-> {}, fs |-> NoFiles]

\* mutant of MissingInput: the return of line 12 is missing, open() raises
MissingInputFallsThrough ==
    /\ pc = "start"
    /\ ~input_exists
    /\ stdout' = Append(stdout, "Error: not found") \o <<"Reading dataset">>
    /\ pc' = "failed"
    /\ UNCHANGED <<input_exists, input_doc, cards, i, run, locals, dirs, fs,
                   tree_after_first>>

\* lines 10-12: the input file is missing
MissingInput ==
    /\ pc = "start"
    /\ ~input_exists
    /\ stdout' = Append(stdout, "Error: not found")
    /\ pc' = "returned"
    /\ UNCHANGED <<input_exists, input_doc, cards, i, run, locals, dirs, fs,
                   tree_after_first>>

\* lines 14-16: read and parse the whole document
LoadInput ==
    /\ pc = "start"
    /\ input_exists
    /\ stdout' = Append(stdout, "Reading dataset")
    /\ cards' = input_doc
    /\ i' = 1
    /\ pc' = "loop"
    /\ UNCHANGED <<input_exists, input_doc, run, locals, dirs, fs, tree_after_first>>

\* lines 18-50 and 56-57: the folders and paths of the record the loop is at
Classify ==
    /\ pc = "loop"
    /\ i <= Len(cards)
    /\ LET card == cards[i]
           type_line == Get(card, "type_line", <<>>)
       IN  \E colors_list \in ColorsLists(card) :
             /\ color_folder' = ColorFolder(colors_list)
             /\ super_type_folder' = SuperTypeFolder(type_line)
             /\ sub_type_folder' = SubTypeFolder(type_line)
             /\ target_dir' = TargetDir(color_folder', super_type_folder', sub_type_folder')
             /\ file_path' = FilePath(target_dir', card)
    /\ pc' = "makedirs"
    /\ UNCHANGED <<input_exists, input_doc, cards, i, run, dirs, fs, stdout,
                   tree_after_first>>

\* line 53: every missing directory of target_dir is created
MakeDirs ==
    /\ pc = "makedirs"
    /\ Range(DirChain(target_dir)) \cap DOMAIN fs = {}
    /\ dirs' = dirs \cup Range(DirChain(target_dir))
    /\ pc' = "open"
    /\ UNCHANGED <<input_exists, input_doc, cards, i, run, locals, fs, stdout,
                   tree_after_first>>

\* line 53 raises (a file in the way, permission denied, disk full): the
\* directories made before the error stay
MakeDirsFails ==
    /\ pc = "makedirs"
    /\ \E n \in 0..(Len(DirChain(target_dir)) - 1) :
         /\ \A k \in 1..n : DirChain(target_dir)[k] \notin DOMAIN fs
         /\ dirs' = dirs \cup {DirChain(target_dir)[k] : k \in 1..n}
    /\ pc' = "failed"
    /\ UNCHANGED <<input_exists, input_doc, cards, i, run, locals, fs, stdout,
                   tree_after_first>>

\* line 59: open(file_path, 'w') creates the file or truncates it
OpenFile ==
    /\ pc = "open"
    /\ file_path \notin dirs
    /\ fs' = WriteText(fs, file_path, <<>>)
    /\ pc' = "dump"
    /\ UNCHANGED <<input_exists, input_doc, cards, i, run, locals, dirs, stdout,
                   tree_after_first>>

\* line 59 raises (a directory of that name, permission denied)
OpenFails ==
    /\ pc = "open"
    /\ pc' = "failed"
    /\ UNCHANGED <<input_exists, input_doc, cards, i, run, locals, dirs, fs, stdout,
                   tree_after_first>>

\* lines 59-60: the record is written and the file closed; the loop moves on
DumpCard ==
    /\ pc = "dump"
    /\ fs' = WriteText(fs, file_path, Dump(cards[i]))
    /\ i' = i + 1
    /\ pc' = "loop"
    /\ UNCHANGED <<input_exists, input_doc, cards, run, locals, dirs, stdout,
                   tree_after_first>>

\* mutant of DumpFails: the output written so far is removed on an error
DumpFailsRollback ==
    /\ pc = "dump"
    /\ fs' = NoFiles
    /\ pc' = "failed"
    /\ UNCHANGED <<input_exists, input_doc, cards, i, run, locals, dirs, stdout,
                   tree_after_first>>

\* line 60 raises (disk full, I/O error): part of the text is on disk
DumpFails ==
    /\ pc = "dump"
    /\ \E n \in 0..(Len(Dump(cards[i])) - 1) :
         fs' = WriteText(fs, file_path, SubSeq(Dump(cards[i]), 1, n))
    /\ pc' = "failed"
    /\ UNCHANGED <<input_exists, input_doc, cards, i, run, locals, dirs, stdout,
                   tree_after_first>>

\* line 62: the loop is over
Finish ==
    /\ pc = "loop"
    /\ i > Len(cards)
    /\ stdout' = Append(stdout, "Success")
    /\ pc' = "done"
    /\ UNCHANGED <<input_exists, input_doc, cards, i, run, locals, dirs, fs,
                   tree_after_first>>

\* lines 64-65 run again: the same input file, the same output root
RunAgain ==
    /\ pc = "done"
    /\ run = 1
    /\ run' = 2
    /\ tree_after_first' = [dirs |-> dirs, fs |-> fs]
    /\ cards' = <<>>
    /\ i' = 0
    /\ color_folder' = <<>>
    /\ super_type_folder' = <<>>
    /\ sub_type_folder' = <<>>
    /\ target_dir' = <<>>
    /\ file_path' = <<>>
    /\ pc' = "start"
    /\ UNCHANGED <<input_exists, input_doc, dirs, fs, stdout>>

Next ==
    \/ MissingInput
    \/ LoadInput
    \/ Classify
    \/ MakeDirs
    \/ MakeDirsFails
    \/ OpenFile
    \/ OpenFails
    \/ DumpCard
    \/ DumpFails
    \/ Finish
    \/ RunAgain

Spec == Init /\ [][Next]_vars

(***************************************************************************)
(* Vocabulary of the properties.                                           *)
(***************************************************************************)
\* the locals hold the folders and paths of cards[i]
Classified == pc \in {"makedirs", "open", "dump"}

TopColors(card) == Get(card, "colors", <<>>)

TypeLineOf(card) == Get(card, "type_line", <<>>)

Count(x, s) == Cardinality({k \in 1..Len(s) : s[k] = x})

Ascending(s) == \A a, b \in 1..Len(s) : a < b => Ord(s[a]) <= Ord(s[b])

\* the letters of a set, each once, in increasing order
AscendingLetters(S) ==
    CHOOSE s \in [1..Cardinality(S) -> S] :
        Range(s) = S /\ \A a, b \in 1..Cardinality(S) : a < b => Ord(s[a]) < Ord(s[b])

\* where the separator first occurs in s (0: nowhere)
FirstSeparator(s) ==
    LET hits == {k \in 1..(Len(s) - 2) : SubSeq(s, k, k + 2) = Separator}
    IN  IF hits = {} THEN 0 ELSE CHOOSE h \in hits : \A g \in hits : h <= g

AfterFirstSeparator(s) == SubSeq(s, FirstSeparator(s) + 3, Len(s))

UpToNextSeparator(s) ==
    IF FirstSeparator(s) = 0 THEN s ELSE SubSeq(s, 1, FirstSeparator(s) - 1)

Legal(c) == c \notin IllegalChars

Underscore(c) == IF c = " " THEN "_" ELSE c

Sanitized(s) == SelectSeq(s, Legal)

Underscored(s) == [k \in 1..Len(s) |-> Underscore(s[k])]

Slashes(path) == Cardinality({k \in 1..Len(path) : path[k] = "/"})

\* the file organize_scryfall_data writes a record to
DestPath(card) ==
    LET colors_list == CHOOSE c \in ColorsLists(card) : TRUE
    IN  FilePath(TargetDir(ColorFolder(colors_list), SuperTypeFolder(TypeLineOf(card)),
                           SubTypeFolder(TypeLineOf(card))), card)

\* the last of the records 1..n that is written to path p (0: none)
LastWriter(p, n) ==
    LET w == {j \in 1..n : DestPath(cards[j]) = p}
    IN  IF w = {} THEN 0 ELSE CHOOSE j \in w : \A k \in w : k <= j

ShivanPath ==
    output_root \o <<"/","R","/">> \o Normal \o <<"/">> \o Dragon \o <<"/">>
        \o ShivanDragon \o DotJson

ShivanUnderscorePath ==
    output_root \o <<"/","R","/">> \o Normal \o <<"/">> \o Dragon \o <<"/">>
        \o <<"S","h","i","v","a","n","_","D","r","a","g","o","n">> \o DotJson

(***************************************************************************)
(* Properties of the classification (lines 19-57).                         *)
(***************************************************************************)
\* C1, as the specification states it: for a record with a non-empty
\* top-level colors list the color folder is the letters of the list, each
\* once, in increasing order, so that ["R","R"] gives the folder of ["R"].
C1_ColorFolderDeduplicated ==
    (Classified /\ TopColors(cards[i]) # <<>>)
        => color_folder = AscendingLetters(Range(TopColors(cards[i])))

\* C1, amended: for a record with a non-empty top-level colors list the color
\* folder is the letters of the list in increasing order with every repeated
\* letter kept: it has the length of the list and as many of each letter.
C1_ColorFolderSortedWithRepeats ==
    (Classified /\ TopColors(cards[i]) # <<>>)
        => /\ Len(color_folder) = Len(TopColors(cards[i]))
           /\ \A x \in Letters : Count(x, color_folder) = Count(x, TopColors(cards[i]))
           /\ Ascending(color_folder)

\* C1 witness: the record with colors ["R","R"] has been classified, and its
\* folder is RR.
C1_Witness ==
    /\ Classified
    /\ TopColors(cards[i]) = <<"R", "R">>
    /\ color_folder = <<"R", "R">>

\* C2, as the specification states it: with the separator in the type line
\* the sub-type folder is sanitize(everything after the first separator, spaces
\* turned into underscores), also when the separator occurs again; without it
\* the folder is No_Subtype.
C2_SubtypeIsAllAfterFirstSeparator ==
    Classified
        => sub_type_folder =
             IF FirstSeparator(TypeLineOf(cards[i])) # 0
             THEN Sanitized(Underscored(AfterFirstSeparator(TypeLineOf(cards[i]))))
             ELSE No_Subtype

\* C2, amended: with the separator in the type line the sub-type folder is
\* sanitize(the text between the first separator and the next separator after
\* it, or the end of the type line when there is none, spaces turned into
\* underscores); without the separator, or without a type line, it is
\* No_Subtype.
C2_SubtypeIsUpToNextSeparator ==
    Classified
        => sub_type_folder =
             IF FirstSeparator(TypeLineOf(cards[i])) # 0
             THEN Sanitized(Underscored(
                      UpToNextSeparator(AfterFirstSeparator(TypeLineOf(cards[i])))))
             ELSE No_Subtype

\* C2 witness: a type line with two separators has been classified; the folder
\* is the text between them.
C2_Witness ==
    /\ Classified
    /\ TypeLineOf(cards[i]) = Creature \o Separator \o <<"D">> \o Separator \o <<"D">>
    /\ sub_type_folder = <<"D">>

\* C3, as the specification states it: the record Shivan Dragon / ["R"] /
\* "Creature - Dragon" goes to <root>/R/Normal/Dragon/Shivan_Dragon.json.
C3_ShivanDragonUnderscoreFile ==
    (Classified /\ cards[i] = ScenarioA) => file_path = ShivanUnderscorePath

\* C3, amended: that record goes to <root>/R/Normal/Dragon/Shivan Dragon.json:
\* the space of the card name stays in the file name.  The path computed is
\* that one, the file exists once the record is processed, and it holds the
\* record right after the write.
C3_ShivanDragonFile ==
    /\ (Classified /\ cards[i] = ScenarioA) => file_path = ShivanPath
    /\ \A j \in 1..Len(cards) :
         (j < i /\ cards[j] = ScenarioA) => ShivanPath \in DOMAIN fs
    /\ (pc = "loop" /\ i > 1 /\ cards[i - 1] = ScenarioA)
         => fs[ShivanPath] = Dump(ScenarioA)

\* C3 witness: the record has just been written.
C3_Witness ==
    /\ pc = "loop"
    /\ i = 2
    /\ cards[1] = ScenarioA
    /\ fs[ShivanPath] = Dump(ScenarioA)
    /\ ShivanUnderscorePath \notin DOMAIN fs

\* C4: the super-type folder is the names of the fixed list that occur in the
\* type line as substrings, in the order of the list, joined by one space; it
\* is Normal when none occurs or the type line is missing.
C4_SuperTypeFolder ==
    Classified
        => LET hit == {k \in 1..Len(super_type_list) :
                          Contains(TypeLineOf(cards[i]), super_type_list[k])}
           IN  IF hit = {} THEN super_type_folder = Normal
               ELSE \E idx \in [1..Cardinality(hit) -> hit] :
                      /\ \A a, b \in 1..Cardinality(hit) : a < b => idx[a] < idx[b]
                      /\ super_type_folder =
                           JoinWith(<<" ">>, [n \in 1..Cardinality(hit) |->
                                                 super_type_list[idx[n]]])

\* C4 witness: the type line "Snow Legendary" names two super-types in the
\* order opposite to the list's; the folder is "Legendary Snow".
C4_Witness ==
    /\ Classified
    /\ TypeLineOf(cards[i]) = super_type_list[3] \o <<" ">> \o super_type_list[2]
    /\ super_type_folder = super_type_list[2] \o <<" ">> \o super_type_list[3]

\* C5: with the top-level colors missing or empty the color folder is the
\* letters of all faces' colors, each once, in increasing order, and Colorless
\* when there is no such letter or no card_faces; with the top-level colors
\* non-empty the folder holds the letters of that list and no others.
C5_ColorFolderFromFaces ==
    Classified
        => LET card == cards[i]
               union == IF "card_faces" \in DOMAIN card
                        THEN UNION {Range(card["card_faces"][n]["colors"]) :
                                      n \in {m \in 1..Len(card["card_faces"]) :
                                               "colors" \in DOMAIN card["card_faces"][m]}}
                        ELSE {}
           IN  IF TopColors(card) = <<>>
               THEN color_folder = IF union = {} THEN Colorless ELSE AscendingLetters(union)
               ELSE Range(color_folder) = Range(TopColors(card))

\* C5 witness: no top-level colors, the faces hold U and then R; the folder
\* is RU.
C5_Witness ==
    /\ Classified
    /\ "colors" \notin DOMAIN cards[i]
    /\ "card_faces" \in DOMAIN cards[i]
    /\ cards[i]["card_faces"] = <<[colors |-> <<"U">>], [colors |-> <<"R">>]>>
    /\ color_folder = <<"R", "U">>

\* C6: the destination directory has four segments (root, color, super-type,
\* sub-type) and the card file lies three directory levels below the root,
\* whatever the record's fields.
C6_FileThreeLevelsBelowRoot ==
    Classified
        => /\ Len(DirChain(target_dir)) = 4
           /\ Slashes(file_path) = Slashes(output_root) + 4

(***************************************************************************)
(* Properties of a whole run (lines 9-62).                                 *)
(***************************************************************************)
\* C7: after a completed run every file written by it parses back to the
\* record it was written from, and a path that several records share holds
\* the last of them in input order.
C7_RoundTripLastWriteWins ==
    pc = "done"
        => \A j \in 1..Len(cards) :
             /\ DestPath(cards[j]) \in DOMAIN fs
             /\ Parse(fs[DestPath(cards[j])])
                  = cards[LastWriter(DestPath(cards[j]), Len(cards))]

\* C7 witness: two records with one destination were processed, and the file
\* holds the second.
C7_Witness ==
    /\ pc = "done"
    /\ cards = <<ScenarioA, ShivanReprint>>
    /\ DestPath(ScenarioA) = DestPath(ShivanReprint)
    /\ Parse(fs[ShivanPath]) = ShivanReprint

\* the record at position j has been processed and written (in this run)
Processed(j) == j \in 1..Len(cards) /\ j < i

\* C8, as the specification states it: after a failure at record k every file
\* written for a record before k is on disk as it was written.
C8_EarlierFilesUnchanged ==
    pc = "failed"
        => \A j \in 1..Len(cards) :
             Processed(j)
                => /\ DestPath(cards[j]) \in DOMAIN fs
                   /\ fs[DestPath(cards[j])]
                        = Dump(cards[LastWriter(DestPath(cards[j]), i - 1)])

\* C8, amended: records are handled one at a time in input order (only the
\* file of the record the loop is at is ever written, and i moves on by one
\* after its write); a failure at record k ends the run (no step follows it);
\* and every file written for a record before k whose path is not the path of
\* record k is on disk as it was written.  The file at record k's own path
\* may be left empty or partly written.
C8_FailureEndsRunOtherFilesKept ==
    /\ [](pc = "failed"
            => \A j \in 1..Len(cards) :
                 (Processed(j) /\ DestPath(cards[j]) # file_path)
                    => /\ DestPath(cards[j]) \in DOMAIN fs
                       /\ fs[DestPath(cards[j])]
                            = Dump(cards[LastWriter(DestPath(cards[j]), i - 1)]))
    /\ [][/\ pc # "failed"
          /\ fs' # fs => /\ i \in 1..Len(cards)
                         /\ file_path = DestPath(cards[i])
                         /\ DOMAIN fs' = DOMAIN fs \cup {file_path}
                         /\ \A p \in DOMAIN fs : p # file_path => fs'[p] = fs[p]
          /\ i' # i => CASE pc = "start" -> i' = 1
                         [] pc = "done" -> i' = 0
                         [] OTHER -> /\ pc = "dump"
                                     /\ i' = i + 1
                                     /\ fs'[file_path] = Dump(cards[i])]_vars

\* C8 witness: the second record failed, the first record's file is at
\* another path and holds the first record.
C8_Witness ==
    /\ pc = "failed"
    /\ i = 2
    /\ DestPath(cards[1]) # file_path
    /\ fs[DestPath(cards[1])] = Dump(cards[1])

\* C9: with the input file missing the call prints an error and returns: no
\* record is read, no directory made, no file written, the tree is as it was,
\* and the call does not end in an error.
C9_MissingInputReturns ==
    /\ [](~input_exists => pc \in {"start", "returned"} /\ cards = <<>> /\ i = 0)
    /\ [][(pc = "start" /\ ~input_exists)
            => /\ pc' = "returned"
               /\ stdout' = Append(stdout, "Error: not found")
               /\ UNCHANGED <<dirs, fs, cards, i>>]_vars
    /\ [][pc # "returned"]_vars

\* C9 witness: the call returned and the tree an earlier use left is there.
C9_Witness ==
    /\ pc = "returned"
    /\ ~input_exists
    /\ stdout = <<"Error: not found">>
    /\ StaleFile \in DOMAIN fs
    /\ fs[StaleFile] = StaleText

\* C10: after a second completed run on the same input and root the tree is
\* the tree the first run left: the same directories, the same files, the same
\* text in each.
C10_SecondRunSameTree ==
    (run = 2 /\ pc = "done") => (dirs = tree_after_first.dirs /\ fs = tree_after_first.fs)

\* C10 witness: both runs completed on an input whose two records share a path.
C10_Witness ==
    /\ run = 2
    /\ pc = "done"
    /\ cards = <<ScenarioA, ShivanReprint>>
    /\ fs = tree_after_first.fs
    /\ ShivanPath \in DOMAIN fs

====
